---------------------------- MODULE Spec2Model ----------------------------
(***************************************************************************)
(* A model of the procedural texture engine of astronoma                   *)
(* (backend/app/texture_generator.py): the content-addressed file cache    *)
(* of TextureGenerator.generate_texture / generate_ring_texture, the       *)
(* colour parser _hex_to_rgb and the per-pixel compositing rules of the    *)
(* five surface strategies.                                                *)
(*                                                                         *)
(* Conventions.                                                            *)
(*  - A Python str is a sequence of one-character strings, so that         *)
(*    f-string concatenation, lstrip and slicing are computed and not      *)
(*    assumed.                                                             *)
(*  - A float noise sample n in [-1, 1] is the integer k = n * NoiseDen,   *)
(*    k in -NoiseDen .. NoiseDen; arithmetic on it is exact rational       *)
(*    arithmetic and Python's int() is truncation toward zero.             *)
(*  - hashlib.md5(..).hexdigest()[:12] is a collision-free symbolic hash   *)
(*    of the hashed string (collisions of the 48-bit prefix are outside    *)
(*    the model).                                                          *)
(*  - Pillow, noise.pnoise2 and random are libraries outside the           *)
(*    repository; they are modelled at their call sites.                   *)
(***************************************************************************)
EXTENDS Integers, Sequences, FiniteSets, TLC

\* ------------------------------------------------------------------ bounds

\* Image size used by the model (TextureGenerator() defaults to 1024 x 512).
Width == 6
Height == 1
\* Resolution of a noise sample: n = k / NoiseDen.
NoiseDen == 4
\* Number of distinct seeds the unseeded random module may start from.
NumSeeds == 2
\* Calls made one after the other (Spec) and calls made by concurrent
\* workers (SpecConc).
MaxCalls == 3
MaxConcCalls == 2

\* ------------------------------------------------------- program constants

\* Height of the ring image, Image.new('RGBA', (self.width, 64), ...).
RingHeight == 64
\* Number of craters stamped by _add_craters, range(50).
NumCraters == 50

\* ----------------------------------------------------------------- strings

Min(a, b) == IF a < b THEN a ELSE b
Max(a, b) == IF a > b THEN a ELSE b

\* Python's int(): truncation toward zero of the rational num / den, den > 0.
PyInt(num, den) == IF num >= 0 THEN num \div den ELSE -((-num) \div den)

\* s[a:b] for 0 <= a <= b: Python clamps the slice to the string.
Slice(s, a, b) == SubSeq(s, Min(a, Len(s)) + 1, Min(b, Len(s)))

\* s.lstrip(ch): every leading ch is removed.
RECURSIVE LStrip(_, _)
LStrip(s, ch) == IF s # <<>> /\ Head(s) = ch THEN LStrip(Tail(s), ch) ELSE s

\* s.strip() on whitespace, as int(s, 16) does before parsing.
RECURSIVE RStrip(_, _)
RStrip(s, ch) == IF s # <<>> /\ s[Len(s)] = ch THEN RStrip(SubSeq(s, 1, Len(s) - 1), ch) ELSE s

HexDigitValue ==
    ("0" :> 0) @@ ("1" :> 1) @@ ("2" :> 2) @@ ("3" :> 3) @@ ("4" :> 4) @@
    ("5" :> 5) @@ ("6" :> 6) @@ ("7" :> 7) @@ ("8" :> 8) @@ ("9" :> 9) @@
    ("A" :> 10) @@ ("B" :> 11) @@ ("C" :> 12) @@ ("D" :> 13) @@ ("E" :> 14) @@
    ("F" :> 15) @@ ("a" :> 10) @@ ("b" :> 11) @@ ("c" :> 12) @@ ("d" :> 13) @@
    ("e" :> 14) @@ ("f" :> 15)

IsHexDigit(ch) == ch \in DOMAIN HexDigitValue

\* The value of a string of hex digits (at most two are ever passed).
RECURSIVE HexDigits(_)
HexDigits(s) == IF s = <<>> THEN 0 ELSE 16 * HexDigits(SubSeq(s, 1, Len(s) - 1)) + HexDigitValue[s[Len(s)]]

\* int(s, 16) for the slices _hex_to_rgb passes (0, 1 or 2 characters):
\* surrounding blanks are stripped, one sign is accepted, the rest must be
\* one or two hex digits ("0x" and "_" need a digit after them, so they
\* fail at this length). ok = FALSE is ValueError.
PyIntBase16(s) ==
    LET t == RStrip(LStrip(s, " "), " ")
        signed == t # <<>> /\ Head(t) \in {"+", "-"}
        digits == IF signed THEN Tail(t) ELSE t
        good == digits # <<>> /\ \A i \in 1..Len(digits) : IsHexDigit(digits[i])
        mag == IF good THEN HexDigits(digits) ELSE 0
    IN  [ok |-> good, val |-> IF signed /\ Head(t) = "-" THEN -mag ELSE mag]

\* A parser that answers black for a colour it cannot parse.
HexToRgbBlankOnError(hex_color) ==
    LET h == LStrip(hex_color, "#")
        p == [i \in {0, 2, 4} |-> PyIntBase16(Slice(h, i, i + 2))]
        ok == p[0].ok /\ p[2].ok /\ p[4].ok
    IN  [ok |-> TRUE,
         rgb |-> IF ok THEN <<p[0].val, p[2].val, p[4].val>> ELSE <<0, 0, 0>>]

\* _hex_to_rgb: strip the leading '#', parse the slices [0:2], [2:4], [4:6].
\* Nothing checks the length, so characters after the sixth are ignored and
\* a 5-character colour parses its last digit alone.
HexToRgb(hex_color) ==
    LET h == LStrip(hex_color, "#")
        p == [i \in {0, 2, 4} |-> PyIntBase16(Slice(h, i, i + 2))]
        ok == p[0].ok /\ p[2].ok /\ p[4].ok
    IN  [ok |-> ok,
         rgb |-> IF ok THEN <<p[0].val, p[2].val, p[4].val>> ELSE <<0, 0, 0>>]

\* ------------------------------------------------------------ cache keys

TextureDir == <<"static/textures">>

\* hashlib.md5(s.encode()).hexdigest()[:12], symbolically.
Md5Hex12(s) == [md5 |-> s]

\* str(temperature)
TemperatureText(temperature) ==
    IF temperature = <<>> THEN <<"N", "o", "n", "e">> ELSE <<"5", "7", "7", "8">>

\* A key that would also hash the temperature.
SurfaceHashInputWithTemperature(planet_type, base_color, name, temperature) ==
    name \o <<"_">> \o planet_type \o <<"_">> \o base_color \o <<"_">> \o TemperatureText(temperature)

\* f"{name}_{planet_type}_{base_color}": the string generate_texture hashes.
\* The temperature is not part of it.
SurfaceHashInput(planet_type, base_color, name, temperature) ==
    name \o <<"_">> \o planet_type \o <<"_">> \o base_color

\* An id that tells the temperatures apart.
SurfaceTextureIdPerTemperature(planet_type, base_color, name, temperature) ==
    Md5Hex12(SurfaceHashInput(planet_type, base_color, name, temperature)
             \o TemperatureText(temperature))

\* hashlib.md5(f"{name}_{planet_type}_{base_color}".encode()).hexdigest()[:12]
SurfaceTextureId(planet_type, base_color, name, temperature) ==
    Md5Hex12(SurfaceHashInput(planet_type, base_color, name, temperature))

\* f"{self.texture_dir}/{texture_id}_diffuse.jpg"
DiffusePath(texture_id) == [dir |-> TextureDir, id |-> texture_id, suffix |-> "_diffuse.jpg"]

\* A reference that names the file with another extension.
DiffuseRefPng(texture_id) == [prefix |-> "/textures/", id |-> texture_id, suffix |-> "_diffuse.png"]

\* f"/textures/{texture_id}_diffuse.jpg"
DiffuseRef(texture_id) == [prefix |-> "/textures/", id |-> texture_id, suffix |-> "_diffuse.jpg"]

\* f"ring_{base_color}_{opacity}": opacity is formatted by its repr.
RingHashInput(base_color, opacity) ==
    <<"r", "i", "n", "g", "_">> \o base_color \o <<"_">> \o opacity.repr

RingTextureId(base_color, opacity) == Md5Hex12(RingHashInput(base_color, opacity))

\* A ring path that ends like a surface path.
RingPathDiffuse(texture_id) == [dir |-> TextureDir, id |-> texture_id, suffix |-> "_diffuse.jpg"]

RingPath(texture_id) == [dir |-> TextureDir, id |-> texture_id, suffix |-> "_ring.png"]

RingRef(texture_id) == [prefix |-> "/textures/", id |-> texture_id, suffix |-> "_ring.png"]

\* ------------------------------------------------------------ noise field

NoiseSamples == (-NoiseDen)..NoiseDen

\* noise.pnoise2(x, y, octaves): a deterministic function of the
\* coordinates x = xn / xd, y = yn / yd and the octave count, with values
\* strictly inside (-1, 1). The coordinates are read to 1/1000.
Pnoise2(xn, xd, yn, yd, octaves) ==
    LET qx == (xn * 1000) \div xd
        qy == (yn * 1000) \div yd
    IN  ((qx * 5 + qy * 11 + octaves * 2) % (2 * NoiseDen - 1)) - (NoiseDen - 1)

\* --------------------------------------------------------- pixel rules

\* star: factor = 0.6 + 0.4 * intensity; min(255, int(c * factor)).
StarChannel(c, intensity) ==
    Min(255, PyInt(c * (6 * NoiseDen + 4 * intensity), 10 * NoiseDen))

StarPixel(base_rgb, intensity) ==
    [i \in 1..3 |-> StarChannel(base_rgb[i], intensity)]

\* gas: factor = 0.8 + 0.3 * f; min(255, max(0, int(c * factor))).
GasChannel(c, f) ==
    Min(255, Max(0, PyInt(c * (8 * NoiseDen + 3 * f), 10 * NoiseDen)))

GasPixel(base_rgb, f) == [i \in 1..3 |-> GasChannel(base_rgb[i], f)]

\* A noise value without the shift by -50.
RockyNoiseValUnshifted(f) == PyInt((f + NoiseDen) * 100, 2 * NoiseDen)

\* rocky: noise_val = int((f + 1) / 2 * 100) - 50.
RockyNoiseVal(f) == PyInt((f + NoiseDen) * 100, 2 * NoiseDen) - 50

RockyPixel(base_rgb, f) ==
    [i \in 1..3 |-> Min(255, Max(0, base_rgb[i] + RockyNoiseVal(f)))]

\* ice: crack = int((noise + 1) * 128); (crack, crack, min(255, crack + 20)).
IceCrack(f) == PyInt((f + NoiseDen) * 128, NoiseDen)

IcePixel(f) == <<IceCrack(f), IceCrack(f), Min(255, IceCrack(f) + 20)>>

\* terrestrial: land when noise > 0.1, ocean otherwise.
LandColor == <<34, 139, 34>>
OceanColor == <<65, 105, 225>>

TerrestrialPixel(f) == IF 10 * f > NoiseDen THEN LandColor ELSE OceanColor

\* ------------------------------------------------------------- randomness

\* The random module is never seeded by the program: a run starts from a
\* seed the program does not choose, and the n-th draw is a function of the
\* seed. Rand is the raw n-th draw.
Seeds == 1..NumSeeds

Rand(seed, n) == (seed * 7919 + n * 6131 + seed * n * 257) % 65521

\* random.randint(a, b), both ends included.
RandInt(seed, n, a, b) == a + (Rand(seed, n) % (b - a + 1))

\* random.random() in [0, 1), in thousandths.
RandomMilli(seed, n) == Rand(seed, n) % 1000

\* ------------------------------------------------------------------ images

Grid == (0..(Width - 1)) \X (0..(Height - 1))

\* An image created with its two dimensions exchanged.
RgbImageTransposed(pixels, filters) ==
    [mode |-> "RGB", size |-> <<Height, Width>>, pixels |-> pixels, filters |-> filters]

\* Image.new('RGB', (self.width, self.height)) filled by the double loop
\* over y and x; filters names the img.filter(..) calls applied afterwards.
RgbImage(pixels, filters) ==
    [mode |-> "RGB", size |-> <<Width, Height>>, pixels |-> pixels, filters |-> filters]

GenerateStarTexture(base_rgb) ==
    RgbImage([p \in Grid |-> StarPixel(base_rgb, Pnoise2(p[1] * 10, Width, p[2] * 10, Height, 3))],
             <<"GaussianBlur(1)">>)

GenerateGasTexture(base_rgb) ==
    RgbImage([p \in Grid |-> GasPixel(base_rgb, Pnoise2(p[1], 100, p[2], 100, 4))],
             <<"GaussianBlur(2)">>)

\* The darkening int((1 - dist / radius) * 80) of a pixel at squared
\* distance q < radius^2 from the centre, computed without the square
\* root: it is 80 - j for the least j with dist <= radius * j / 80.  The
\* code computes it in double precision: for dist / radius = 0.8 and 0.9
\* the difference 1 - dist / radius is just below 0.2 and 0.1, and int()
\* truncates the product to 15 and 7 instead of 16 and 8; over the radii
\* 5..20 these are the only squared distances where the double result is
\* not the exact one.
DarkenAt(q, radius) ==
    80 - (CHOOSE j \in 0..80 :
            /\ radius * radius * j * j >= 6400 * q
            /\ j > 0 => radius * radius * (j - 1) * (j - 1) < 6400 * q)
       - (IF 25 * q = 16 * radius * radius \/ 100 * q = 81 * radius * radius THEN 1 ELSE 0)

\* The same, tabulated over the squared distances that occur in the image
\* and the radii random.randint(5, 20) draws.
DarkenTable ==
    [q \in 0..((Width - 1) * (Width - 1) + (Height - 1) * (Height - 1)) |->
        [radius \in 5..20 |-> IF q < radius * radius THEN DarkenAt(q, radius) ELSE 0]]

CraterDarken(q, radius) ==
    IF q \in DOMAIN DarkenTable /\ radius \in 5..20
    THEN DarkenTable[q][radius]
    ELSE IF q < radius * radius THEN DarkenAt(q, radius) ELSE 0

\* A crater that darkens its whole disc by 80, without the falloff.
CraterOnFlat(p, cx, cy, radius) ==
    LET q == (p[1] - cx) * (p[1] - cx) + (p[2] - cy) * (p[2] - cy)
    IN  IF q < radius * radius
        THEN [hit |-> TRUE, darken |-> 80]
        ELSE [hit |-> FALSE, darken |-> 0]

\* Whether the crater with centre (cx, cy) reaches the pixel p, and by how
\* much it darkens it: the ranges of the two inner loops of _add_craters,
\* the test dist < radius and the value of darken.
CraterOn(p, cx, cy, radius) ==
    LET q == (p[1] - cx) * (p[1] - cx) + (p[2] - cy) * (p[2] - cy)
        inBox == /\ p[2] >= Max(0, cy - radius) /\ p[2] < Min(Height, cy + radius)
                 /\ p[1] >= Max(0, cx - radius) /\ p[1] < Min(Width, cx + radius)
    IN  IF inBox /\ q < radius * radius
        THEN [hit |-> TRUE, darken |-> CraterDarken(q, radius)]
        ELSE [hit |-> FALSE, darken |-> 0]

\* A crater pass that subtracts without the floor at 0.
DarkenedUnclamped(v, c) ==
    IF c.hit
    THEN <<v[1] - c.darken, v[2] - c.darken, v[3] - c.darken>>
    ELSE v

\* The assignment pixels[x, y] = (max(0, r - darken), ..) of a pixel the
\* crater reaches; a pixel it does not reach keeps its value.
Darkened(v, c) ==
    IF c.hit
    THEN <<Max(0, v[1] - c.darken), Max(0, v[2] - c.darken), Max(0, v[3] - c.darken)>>
    ELSE v

\* What one crater with centre (cx, cy) does to the pixel p of value v.
StampPixel(p, v, cx, cy, radius) == Darkened(v, CraterOn(p, cx, cy, radius))

\* The craters are drawn in order, three draws each: cx, cy, radius.
CraterX(seed, k) == RandInt(seed, 3 * k, 0, Width - 1)
CraterY(seed, k) == RandInt(seed, 3 * k + 1, 0, Height - 1)
\* A radius drawn from 1..30.
CraterRadiusWide(seed, k) == RandInt(seed, 3 * k + 2, 1, 30)

CraterRadius(seed, k) == RandInt(seed, 3 * k + 2, 5, 20)

\* The craters of one run of _add_craters as each pixel meets them; they
\* depend on the random stream only, not on the image.
CratersOf ==
    [seed \in Seeds |->
        [p \in Grid |->
            [k \in 0..(NumCraters - 1) |->
                CraterOn(p, CraterX(seed, k), CraterY(seed, k), CraterRadius(seed, k))]]]

\* _add_craters seen from one pixel: craters k .. NumCraters - 1 applied in
\* stamping order (a crater touches a pixel independently of the others).
RECURSIVE CratersOnPixel(_, _, _, _)
CratersOnPixel(p, v, seed, k) ==
    IF k >= NumCraters THEN v
    ELSE LET w == Darkened(v, CratersOf[seed][p][k])
         IN  IF w = v THEN CratersOnPixel(p, v, seed, k + 1) ELSE CratersOnPixel(p, w, seed, k + 1)
             \* (comparing w with v makes TLC evaluate one crater before the next)

AddCraters(pixels, seed) == [p \in DOMAIN pixels |-> CratersOnPixel(p, pixels[p], seed, 0)]

GenerateRockyTexture(base_rgb, seed) ==
    RgbImage(AddCraters([p \in Grid |-> RockyPixel(base_rgb, Pnoise2(p[1], 50, p[2], 50, 5))], seed),
             <<>>)

GenerateIceTexture(base_rgb) ==
    RgbImage([p \in Grid |-> IcePixel(Pnoise2(p[1], 20, p[2], 20, 6))],
             <<"SMOOTH_MORE">>)

GenerateTerrestrialTexture ==
    RgbImage([p \in Grid |-> TerrestrialPixel(Pnoise2(p[1] * 3, Width, p[2] * 3, Height, 3))],
             <<>>)

\* The if / elif chain of generate_texture on planet_type.
Star == <<"s", "t", "a", "r">>
Gas == <<"g", "a", "s">>
Rocky == <<"r", "o", "c", "k", "y">>
Ice == <<"i", "c", "e">>
Terrestrial == <<"t", "e", "r", "r", "e", "s", "t", "r", "i", "a", "l">>

\* A dispatch whose default branch is the rocky strategy.
StrategyDefaultRocky(planet_type) ==
    IF planet_type = Star THEN "star"
    ELSE IF planet_type = Gas THEN "gas"
    ELSE IF planet_type = Ice THEN "ice"
    ELSE IF planet_type = Terrestrial THEN "terrestrial"
    ELSE "rocky"

Strategy(planet_type) ==
    IF planet_type = Star THEN "star"
    ELSE IF planet_type = Gas THEN "gas"
    ELSE IF planet_type = Rocky THEN "rocky"
    ELSE IF planet_type = Ice THEN "ice"
    ELSE "terrestrial"

\* A terrestrial strategy that paints the land in the base colour.
SynthesizeTintedLand(planet_type, rgb, seed) ==
    IF Strategy(planet_type) = "star" THEN GenerateStarTexture(rgb)
    ELSE IF Strategy(planet_type) = "gas" THEN GenerateGasTexture(rgb)
    ELSE IF Strategy(planet_type) = "rocky" THEN GenerateRockyTexture(rgb, seed)
    ELSE IF Strategy(planet_type) = "ice" THEN GenerateIceTexture(rgb)
    ELSE RgbImage([p \in Grid |->
                      IF 10 * Pnoise2(p[1] * 3, Width, p[2] * 3, Height, 3) > NoiseDen
                      THEN rgb ELSE OceanColor],
                  <<>>)

\* A star strategy that tints the base colour with a random draw.
SynthesizeJitteredStar(planet_type, rgb, seed) ==
    IF Strategy(planet_type) = "star"
    THEN GenerateStarTexture([i \in 1..3 |-> Max(0, Min(255, rgb[i] + RandInt(seed, 0, -15, 15)))])
    ELSE IF Strategy(planet_type) = "gas" THEN GenerateGasTexture(rgb)
    ELSE IF Strategy(planet_type) = "rocky" THEN GenerateRockyTexture(rgb, seed)
    ELSE IF Strategy(planet_type) = "ice" THEN GenerateIceTexture(rgb)
    ELSE GenerateTerrestrialTexture

Synthesize(planet_type, rgb, seed) ==
    IF Strategy(planet_type) = "star" THEN GenerateStarTexture(rgb)
    ELSE IF Strategy(planet_type) = "gas" THEN GenerateGasTexture(rgb)
    ELSE IF Strategy(planet_type) = "rocky" THEN GenerateRockyTexture(rgb, seed)
    ELSE IF Strategy(planet_type) = "ice" THEN GenerateIceTexture(rgb)
    ELSE GenerateTerrestrialTexture

\* The ring image: columns i .. Width - 1 drawn from draw n on. A column is
\* a gap (left (0, 0, 0, 0)) unless random.random() > 0.1; a drawn column
\* takes two more draws, for the alpha and for the tint.
Transparent == <<0, 0, 0, 0>>

\* An alpha that leaves the opacity out: int(u * 255).
RingAlphaUnscaled(seed, n, opacity) ==
    PyInt((1000 + RandomMilli(seed, n)) * 255, 2000)

\* alpha = int((random.uniform(0.5, 1.0) * opacity) * 255), the uniform draw
\* being 0.5 + 0.5 * random.random().
RingAlpha(seed, n, opacity) ==
    PyInt((1000 + RandomMilli(seed, n)) * opacity.num * 255, 2000 * opacity.den)

\* A column whose green channel gets the opposite variation.
RingColumnSplit(rgb, seed, n, opacity) ==
    LET v == RandInt(seed, n + 2, -15, 15)
    IN  <<Max(0, Min(255, rgb[1] + v)), Max(0, Min(255, rgb[2] - v)),
          Max(0, Min(255, rgb[3] + v)), RingAlpha(seed, n + 1, opacity)>>

\* final_color: color_variation = random.randint(-15, 15) added to the three
\* channels, each clamped by max(0, min(255, ..)), and the alpha.
RingColumn(rgb, seed, n, opacity) ==
    LET v == RandInt(seed, n + 2, -15, 15)
    IN  <<Max(0, Min(255, rgb[1] + v)), Max(0, Min(255, rgb[2] + v)),
          Max(0, Min(255, rgb[3] + v)), RingAlpha(seed, n + 1, opacity)>>

RECURSIVE RingColumnsFrom(_, _, _, _, _)
RingColumnsFrom(rgb, seed, n, opacity, i) ==
    IF i >= Width THEN <<>>
    ELSE IF RandomMilli(seed, n) > 100
         THEN <<RingColumn(rgb, seed, n, opacity)>> \o RingColumnsFrom(rgb, seed, n + 3, opacity, i + 1)
         ELSE <<Transparent>> \o RingColumnsFrom(rgb, seed, n + 1, opacity, i + 1)

\* A ring drawn as an opaque image of the surface size.
GenerateRingImageOpaque(rgb, opacity, seed) ==
    [mode |-> "RGB", size |-> <<Width, Height>>,
     columns |-> RingColumnsFrom(rgb, seed, 0, opacity, 0)]

\* columns[i + 1] is the RGBA value of every pixel (i, y), 0 <= y < 64:
\* draw.line([(i, 0), (i, 64)]) covers the whole column.
GenerateRingImage(rgb, opacity, seed) ==
    [mode |-> "RGBA", size |-> <<Width, RingHeight>>,
     columns |-> RingColumnsFrom(rgb, seed, 0, opacity, 0)]

\* ------------------------------------------------------------------ inputs

Sun == <<"S", "u", "n">>
\* A planet_type outside the five known values.
Moon == <<"m", "o", "o", "n">>

\* '#FF8000' and '#0000FF': well formed.
ColorA == <<"#", "F", "F", "8", "0", "0", "0">>
ColorB == <<"#", "0", "0", "0", "0", "F", "F">>
\* '#FFFFF': five hex digits.
ColorFive == <<"#", "F", "F", "F", "F", "F">>
\* '#GG0000': not hexadecimal.
ColorBad == <<"#", "G", "G", "0", "0", "0", "0">>

WellFormedColor(c) ==
    LET h == LStrip(c, "#")
    IN  Len(h) = 6 /\ \A i \in 1..6 : IsHexDigit(h[i])

\* temperature: Optional[int], None is <<>>.
Temperatures == {<<>>, <<5778>>}

SurfaceArgs ==
    {[planet_type |-> Star, base_color |-> ColorA, name |-> Sun],
     [planet_type |-> Gas, base_color |-> ColorA, name |-> Sun],
     [planet_type |-> Rocky, base_color |-> ColorA, name |-> Sun],
     [planet_type |-> Ice, base_color |-> ColorA, name |-> Sun],
     [planet_type |-> Terrestrial, base_color |-> ColorA, name |-> Sun],
     [planet_type |-> Terrestrial, base_color |-> ColorB, name |-> Sun],
     [planet_type |-> Moon, base_color |-> ColorA, name |-> Sun],
     [planet_type |-> Star, base_color |-> ColorFive, name |-> Sun],
     [planet_type |-> Star, base_color |-> ColorBad, name |-> Sun]}

\* opacity 0.8, with the text str() gives it.
Opacity08 == [repr |-> <<"0", ".", "8">>, num |-> 8, den |-> 10]
\* opacity 0.0 and 1.0, the ends of [0, 1].
Opacity0 == [repr |-> <<"0", ".", "0">>, num |-> 0, den |-> 10]
Opacity1 == [repr |-> <<"1", ".", "0">>, num |-> 10, den |-> 10]

RingArgs ==
    {[base_color |-> ColorA, opacity |-> Opacity08],
     [base_color |-> ColorBad, opacity |-> Opacity08]}

Threads == {"w1", "w2"}
MainThread == "w1"

\* ------------------------------------------------------------------- state

VARIABLES
    files,      \* the textures directory: path -> [state, img, writers]
    pc,         \* per worker: idle, render, save, write, returned, raised
    call,       \* per worker: the arguments of the call in progress
    loc,        \* per worker: the locals texture_id / path, img, created
    result,     \* per worker: the dictionary returned
    calls,      \* number of calls begun
    synthRuns,  \* per worker: synthesizers run by the call in progress
    wrote,      \* per worker: whether the call in progress opened a file for writing
    served,     \* request (without temperature) -> first reference returned for it
    rendered,   \* path -> image of the first render that completed there
    sampleIn,   \* pixel rules: the strategy, base colour and noise sample of one pixel
    pixelOut,   \* pixel rules: the value assigned to that pixel, <<>> before
    stamps,     \* pixel rules: craters stamped on that pixel so far
    ringIn,     \* ring drawing: the base colour, opacity and seed of one drawing
    ringOut,    \* ring drawing: the image drawn, NoImage before
    renderIn,   \* repeated render: the request and the seed of each render
    renderOut,  \* repeated render: the images rendered so far
    keyIn,      \* key derivation: two surface requests and a ring request
    keyOut,     \* key derivation: their hashed strings, ids and paths, <<>> before
    texture_generator,  \* main.py: whether the module-level generator was created
    texture_cache,      \* main.py: object id -> texture_data
    req,        \* handlers: the request in progress, its loop position and locals
    response,   \* handlers: what the last finished request returned
    requests    \* handlers: number of requests begun

cacheVars == <<files, pc, call, loc, result, calls, synthRuns, wrote, served, rendered>>
pixelVars == <<sampleIn, pixelOut, stamps>>
ringVars == <<ringIn, ringOut>>
renderVars == <<renderIn, renderOut>>
keyVars == <<keyIn, keyOut>>
apiVars == <<texture_generator, texture_cache, req, response, requests>>
vars == <<cacheVars, pixelVars, ringVars, renderVars, keyVars, apiVars>>

NoImage == [mode |-> "none"]
NoCall == [op |-> "none"]
NoPath == [dir |-> <<>>, id |-> Md5Hex12(<<>>), suffix |-> ""]
NoLocals == [path |-> NoPath]
NoResult == [raised |-> "none"]
NoSample == [strategy |-> "none"]
NoRing == [base_color |-> <<>>]
NoRender == [planet_type |-> <<>>]
NoKeys == [surface |-> <<>>]
NoRequest == [op |-> "none"]
NoResponse == [status |-> 0]

\* No key derivation and no request in progress; main.py starts with
\* texture_cache = {} and, when TextureGenerator() succeeds, a generator.
KeyIdle == keyIn = NoKeys /\ keyOut = <<>>
ApiIdle ==
    /\ texture_generator = TRUE
    /\ texture_cache = <<>>
    /\ req = NoRequest
    /\ response = NoResponse
    /\ requests = 0

\* An existence check that looks in the wrong place and never finds a file.
ExistsNowhere(path) == FALSE

\* os.path.exists(path)
Exists(path) == path \in DOMAIN files

\* A store that keeps only the file written last (eviction).
WriteFileEvicting(path, entry) == (path :> entry)

\* The directory after the file at path is created or rewritten as entry.
WriteFile(path, entry) == (path :> entry) @@ files

Init ==
    /\ files = <<>>
    /\ pc = [t \in Threads |-> "idle"]
    /\ call = [t \in Threads |-> NoCall]
    /\ loc = [t \in Threads |-> NoLocals]
    /\ result = [t \in Threads |-> NoResult]
    /\ calls = 0
    /\ synthRuns = [t \in Threads |-> 0]
    /\ wrote = [t \in Threads |-> FALSE]
    /\ served = <<>>
    /\ rendered = <<>>
    /\ sampleIn = NoSample
    /\ pixelOut = <<>>
    /\ stamps = 0
    /\ ringIn = NoRing
    /\ ringOut = NoImage
    /\ renderIn = NoRender
    /\ renderOut = <<>>
    /\ KeyIdle
    /\ ApiIdle

\* The request a call stands for: its arguments without the temperature.
RequestOf(c) ==
    IF c.op = "surface"
    THEN [op |-> "surface", planet_type |-> c.planet_type, base_color |-> c.base_color, name |-> c.name]
    ELSE [op |-> "ring", base_color |-> c.base_color, opacity |-> c.opacity]

\* generate_texture, lines 25-33: the key, the path and the existence check.
\* On a hit the call returns at once; on a miss it goes on to render.
SurfaceHitResult(texture_id, planet_type, name) ==
    [diffuse |-> DiffuseRef(texture_id), type |-> planet_type, name |-> name, cached |-> TRUE]

SurfaceMissResult(texture_id, planet_type, name) ==
    [diffuse |-> DiffuseRef(texture_id), type |-> planet_type, name |-> name]

GenerateTexture(t, planet_type, base_color, name, temperature) ==
    LET texture_id == SurfaceTextureId(planet_type, base_color, name, temperature)
        diffuse_path == DiffusePath(texture_id)
    IN  /\ pc[t] = "idle"
        /\ calls' = calls + 1
        /\ call' = [call EXCEPT ![t] = [op |-> "surface", planet_type |-> planet_type,
                                        base_color |-> base_color, name |-> name,
                                        temperature |-> temperature]]
        /\ loc' = [loc EXCEPT ![t] = [path |-> diffuse_path, texture_id |-> texture_id,
                                      img |-> NoImage, created |-> FALSE,
                                      hit |-> diffuse_path \in DOMAIN files,
                                      late |-> diffuse_path \in DOMAIN rendered]]
        /\ synthRuns' = [synthRuns EXCEPT ![t] = 0]
        /\ wrote' = [wrote EXCEPT ![t] = FALSE]
        /\ IF Exists(diffuse_path)
           THEN /\ result' = [result EXCEPT ![t] = SurfaceHitResult(texture_id, planet_type, name)]
                /\ pc' = [pc EXCEPT ![t] = "returned"]
           ELSE /\ result' = [result EXCEPT ![t] = NoResult]
                /\ pc' = [pc EXCEPT ![t] = "render"]
        /\ UNCHANGED <<files, served, rendered, pixelVars, ringVars, renderVars, keyVars, apiVars>>

\* generate_ring_texture, lines 126-130.
\* A hit that is returned without the 'cached' flag.
RingHitResultUnflagged(texture_id) == [ring |-> RingRef(texture_id)]

RingHitResult(texture_id) == [ring |-> RingRef(texture_id), cached |-> TRUE]

RingMissResult(texture_id) == [ring |-> RingRef(texture_id)]

GenerateRingTexture(t, base_color, opacity) ==
    LET texture_id == RingTextureId(base_color, opacity)
        ring_path == RingPath(texture_id)
    IN  /\ pc[t] = "idle"
        /\ calls' = calls + 1
        /\ call' = [call EXCEPT ![t] = [op |-> "ring", base_color |-> base_color, opacity |-> opacity]]
        /\ loc' = [loc EXCEPT ![t] = [path |-> ring_path, texture_id |-> texture_id,
                                      img |-> NoImage, created |-> FALSE,
                                      hit |-> ring_path \in DOMAIN files,
                                      late |-> ring_path \in DOMAIN rendered]]
        /\ synthRuns' = [synthRuns EXCEPT ![t] = 0]
        /\ wrote' = [wrote EXCEPT ![t] = FALSE]
        /\ IF Exists(ring_path)
           THEN /\ result' = [result EXCEPT ![t] = RingHitResult(texture_id)]
                /\ pc' = [pc EXCEPT ![t] = "returned"]
           ELSE /\ result' = [result EXCEPT ![t] = NoResult]
                /\ pc' = [pc EXCEPT ![t] = "render"]
        /\ UNCHANGED <<files, served, rendered, pixelVars, ringVars, renderVars, keyVars, apiVars>>

\* generate_texture, lines 35-46: parse the colour, then run the strategy's
\* synthesizer. A ValueError of _hex_to_rgb ends the call.
RenderSurface(t) ==
    /\ pc[t] = "render"
    /\ call[t].op = "surface"
    /\ LET parsed == HexToRgb(call[t].base_color)
       IN  IF ~parsed.ok
           THEN /\ pc' = [pc EXCEPT ![t] = "raised"]
                /\ result' = [result EXCEPT ![t] = [raised |-> "ValueError"]]
                /\ UNCHANGED <<loc, synthRuns>>
           ELSE \E seed \in Seeds :
                /\ loc' = [loc EXCEPT ![t].img = Synthesize(call[t].planet_type, parsed.rgb, seed)]
                /\ synthRuns' = [synthRuns EXCEPT ![t] = @ + 1]
                /\ pc' = [pc EXCEPT ![t] = "save"]
                /\ UNCHANGED result
    /\ UNCHANGED <<files, call, calls, wrote, served, rendered, pixelVars, ringVars, renderVars, keyVars, apiVars>>

\* generate_ring_texture, lines 132-148.
RenderRing(t) ==
    /\ pc[t] = "render"
    /\ call[t].op = "ring"
    /\ LET parsed == HexToRgb(call[t].base_color)
       IN  IF ~parsed.ok
           THEN /\ pc' = [pc EXCEPT ![t] = "raised"]
                /\ result' = [result EXCEPT ![t] = [raised |-> "ValueError"]]
                /\ UNCHANGED <<loc, synthRuns>>
           ELSE \E seed \in Seeds :
                /\ loc' = [loc EXCEPT ![t].img = GenerateRingImage(parsed.rgb, call[t].opacity, seed)]
                /\ synthRuns' = [synthRuns EXCEPT ![t] = @ + 1]
                /\ pc' = [pc EXCEPT ![t] = "save"]
                /\ UNCHANGED result
    /\ UNCHANGED <<files, call, calls, wrote, served, rendered, pixelVars, ringVars, renderVars, keyVars, apiVars>>

\* Image.save(path, ...), first half (Pillow): created = not
\* os.path.exists(path), then open(path, "w+b"), which creates the file or
\* truncates it. From here on the path exists and holds an incomplete file.
SaveOpen(t) ==
    /\ pc[t] = "save"
    /\ LET path == loc[t].path
           writers == IF Exists(path) THEN files[path].writers ELSE {}
       IN  /\ loc' = [loc EXCEPT ![t].created = ~Exists(path)]
           /\ files' = WriteFile(path, [state |-> "partial", img |-> NoImage, writers |-> writers \cup {t}])
    /\ wrote' = [wrote EXCEPT ![t] = TRUE]
    /\ pc' = [pc EXCEPT ![t] = "write"]
    /\ UNCHANGED <<call, result, calls, synthRuns, served, rendered, pixelVars, ringVars, renderVars, keyVars, apiVars>>

\* open() itself fails (the directory is gone, no permission): nothing is
\* created and the exception leaves the call.
SaveOpenFails(t) ==
    /\ pc[t] = "save"
    /\ pc' = [pc EXCEPT ![t] = "raised"]
    /\ result' = [result EXCEPT ![t] = [raised |-> "OSError"]]
    /\ UNCHANGED <<files, call, loc, calls, synthRuns, wrote, served, rendered, pixelVars, ringVars, renderVars, keyVars, apiVars>>

\* The file t holds open, if the path still names it.
Holds(t) == Exists(loc[t].path) /\ t \in files[loc[t].path].writers

\* Image.save, second half: the encoder writes the image and the file is
\* closed; the call then returns its dictionary (lines 48-54, 150-152). The
\* file is whole once no other writer holds it open.
MissResult(c, texture_id) ==
    IF c.op = "surface" THEN SurfaceMissResult(texture_id, c.planet_type, c.name)
    ELSE RingMissResult(texture_id)

SaveWrite(t) ==
    /\ pc[t] = "write"
    /\ LET path == loc[t].path
       IN  /\ files' = IF Holds(t)
                       THEN LET others == files[path].writers \ {t}
                            IN  WriteFile(path, IF others = {}
                                                THEN [state |-> "complete", img |-> loc[t].img, writers |-> {}]
                                                ELSE [state |-> "partial", img |-> NoImage, writers |-> others])
                       ELSE files
           /\ rendered' = IF path \in DOMAIN rendered THEN rendered
                          ELSE (path :> loc[t].img) @@ rendered
    /\ result' = [result EXCEPT ![t] = MissResult(call[t], loc[t].texture_id)]
    /\ pc' = [pc EXCEPT ![t] = "returned"]
    /\ UNCHANGED <<call, loc, calls, synthRuns, wrote, served, pixelVars, ringVars, renderVars, keyVars, apiVars>>

\* Image.save fails while writing or closing (disk full, I/O error, the
\* worker is killed). Pillow closes the file and, when this call created
\* it, tries os.remove(path); the program itself cleans nothing up. Either
\* the path is removed or the incomplete file stays.
Release(t) ==
    IF Holds(t)
    THEN WriteFile(loc[t].path, [files[loc[t].path] EXCEPT !.writers = @ \ {t}])
    ELSE files

Remove(path) == [p \in (DOMAIN files) \ {path} |-> files[p]]

SaveFailsRemoved(t) ==
    /\ pc[t] = "write"
    /\ loc[t].created
    /\ files' = Remove(loc[t].path)
    /\ pc' = [pc EXCEPT ![t] = "raised"]
    /\ result' = [result EXCEPT ![t] = [raised |-> "OSError"]]
    /\ UNCHANGED <<call, loc, calls, synthRuns, wrote, served, rendered, pixelVars, ringVars, renderVars, keyVars, apiVars>>

SaveFailsLeft(t) ==
    /\ pc[t] = "write"
    /\ files' = Release(t)
    /\ pc' = [pc EXCEPT ![t] = "raised"]
    /\ result' = [result EXCEPT ![t] = [raised |-> "OSError"]]
    /\ UNCHANGED <<call, loc, calls, synthRuns, wrote, served, rendered, pixelVars, ringVars, renderVars, keyVars, apiVars>>

\* The caller has the result (or the exception) and the worker is free for
\* the next call. served remembers the first reference returned per request.
Finish(t) ==
    /\ pc[t] \in {"returned", "raised"}
    /\ served' = IF pc[t] = "returned" /\ RequestOf(call[t]) \notin DOMAIN served
                 THEN (RequestOf(call[t]) :> [result |-> result[t], call |-> call[t]]) @@ served
                 ELSE served
    /\ pc' = [pc EXCEPT ![t] = "idle"]
    /\ call' = [call EXCEPT ![t] = NoCall]
    /\ loc' = [loc EXCEPT ![t] = NoLocals]
    /\ result' = [result EXCEPT ![t] = NoResult]
    /\ synthRuns' = [synthRuns EXCEPT ![t] = 0]
    /\ wrote' = [wrote EXCEPT ![t] = FALSE]
    /\ UNCHANGED <<files, calls, rendered, pixelVars, ringVars, renderVars, keyVars, apiVars>>

Step(t) ==
    \/ RenderSurface(t)
    \/ RenderRing(t)
    \/ SaveOpen(t)
    \/ SaveOpenFails(t)
    \/ SaveWrite(t)
    \/ SaveFailsRemoved(t)
    \/ SaveFailsLeft(t)
    \/ Finish(t)

\* Calls made one after the other by one worker: the way main.py calls the
\* generator, synchronously inside its request handlers.
CallSurface(t) ==
    \E a \in SurfaceArgs, temperature \in Temperatures :
        GenerateTexture(t, a.planet_type, a.base_color, a.name, temperature)

CallRing(t) ==
    \E a \in RingArgs : GenerateRingTexture(t, a.base_color, a.opacity)

Next ==
    \/ calls < MaxCalls /\ CallSurface(MainThread)
    \/ calls < MaxCalls /\ CallRing(MainThread)
    \/ Step(MainThread)

Spec == Init /\ [][Next]_vars

\* Calls of several workers sharing the textures directory, interleaved at
\* every file-system operation.
NextConc ==
    \/ \E t \in Threads : calls < MaxConcCalls /\ CallSurface(t)
    \/ \E t \in Threads : calls < MaxConcCalls /\ CallRing(t)
    \/ \E t \in Threads : Step(t)

SpecConc == Init /\ [][NextConc]_vars

\* ------------------------------------------------------------ pixel rules
\* One pixel of one strategy, for every base colour channel value and every
\* noise sample: the value the strategy's loop body assigns to the pixel,
\* and then the craters _add_craters stamps on a rocky pixel.

\* Craters followed on the pixel.
MaxStamps == 1

Strategies == {"star", "gas", "rocky", "ice", "terrestrial"}

\* Base colours #000000 .. #FFFFFF: every value of every channel occurs.
BaseColors == {<<c, 255 - c, (c + 128) % 256>> : c \in 0..255}

\* pixels[x, y] = ... in the loop of _generate_<strategy>_texture.
AssignedPixel(strategy, base_rgb, f) ==
    CASE strategy = "star" -> StarPixel(base_rgb, f)
      [] strategy = "gas" -> GasPixel(base_rgb, f)
      [] strategy = "rocky" -> RockyPixel(base_rgb, f)
      [] strategy = "ice" -> IcePixel(f)
      [] strategy = "terrestrial" -> TerrestrialPixel(f)

InitPixel ==
    /\ files = <<>>
    /\ pc = [t \in Threads |-> "idle"]
    /\ call = [t \in Threads |-> NoCall]
    /\ loc = [t \in Threads |-> NoLocals]
    /\ result = [t \in Threads |-> NoResult]
    /\ calls = 0
    /\ synthRuns = [t \in Threads |-> 0]
    /\ wrote = [t \in Threads |-> FALSE]
    /\ served = <<>>
    /\ rendered = <<>>
    /\ sampleIn \in [strategy : Strategies, base_rgb : BaseColors, noise : NoiseSamples]
    /\ pixelOut = <<>>
    /\ stamps = 0
    /\ ringIn = NoRing
    /\ ringOut = NoImage
    /\ renderIn = NoRender
    /\ renderOut = <<>>
    /\ KeyIdle
    /\ ApiIdle

AssignPixel ==
    /\ pixelOut = <<>>
    /\ pixelOut' = AssignedPixel(sampleIn.strategy, sampleIn.base_rgb, sampleIn.noise)
    /\ UNCHANGED <<cacheVars, sampleIn, stamps, ringVars, renderVars, keyVars, apiVars>>

\* One crater of _add_craters on the pixel (0, 0) of a rocky image.
StampCraterOnPixel ==
    /\ sampleIn.strategy = "rocky"
    /\ pixelOut # <<>>
    /\ stamps < MaxStamps
    /\ \E cx \in 0..(Width - 1), cy \in 0..(Height - 1), radius \in 5..20 :
           pixelOut' = StampPixel(<<0, 0>>, pixelOut, cx, cy, radius)
    /\ stamps' = stamps + 1
    /\ UNCHANGED <<cacheVars, sampleIn, ringVars, renderVars, keyVars, apiVars>>

NextPixel ==
    \/ AssignPixel
    \/ StampCraterOnPixel

SpecPixel == InitPixel /\ [][NextPixel]_vars

\* ------------------------------------------------------------ crater pass

\* _add_craters followed crater by crater at one pixel p of a rocky image:
\* stamps counts the iterations of "for _ in range(50)" done so far.
CraterColors == {<<255, 128, 0>>, <<0, 0, 255>>, <<40, 200, 90>>}

InitCraters ==
    /\ files = <<>>
    /\ pc = [t \in Threads |-> "idle"]
    /\ call = [t \in Threads |-> NoCall]
    /\ loc = [t \in Threads |-> NoLocals]
    /\ result = [t \in Threads |-> NoResult]
    /\ calls = 0
    /\ synthRuns = [t \in Threads |-> 0]
    /\ wrote = [t \in Threads |-> FALSE]
    /\ served = <<>>
    /\ rendered = <<>>
    /\ sampleIn \in [strategy : {"rocky"}, base_rgb : CraterColors, noise : NoiseSamples,
                     seed : Seeds, p : Grid]
    /\ pixelOut = <<>>
    /\ stamps = 0
    /\ ringIn = NoRing
    /\ ringOut = NoImage
    /\ renderIn = NoRender
    /\ renderOut = <<>>
    /\ KeyIdle
    /\ ApiIdle

StampNextCrater ==
    /\ pixelOut # <<>>
    /\ stamps < NumCraters
    /\ pixelOut' = StampPixel(sampleIn.p, pixelOut,
                              CraterX(sampleIn.seed, stamps), CraterY(sampleIn.seed, stamps),
                              CraterRadius(sampleIn.seed, stamps))
    /\ stamps' = stamps + 1
    /\ UNCHANGED <<cacheVars, sampleIn, ringVars, renderVars, keyVars, apiVars>>

NextCraters ==
    \/ AssignPixel
    \/ StampNextCrater

\* The loops of _generate_rocky_texture and _add_craters are plain for
\* loops over finite ranges: each iteration that can run does run.
SpecCraters == InitCraters /\ [][NextCraters]_vars /\ WF_vars(NextCraters)

\* ----------------------------------------------------------- ring drawing

\* The drawing part of generate_ring_texture (lines 132-148) on its own, over
\* colours whose channels are 00, 80 or FF, a five-digit and a non-hex colour,
\* and over the opacities 0.0, 0.8 and 1.0.
HexPairs == {<<"0", "0">>, <<"8", "0">>, <<"F", "F">>}
RingColors ==
    {<<"#">> \o r \o g \o b : r \in HexPairs, g \in HexPairs, b \in HexPairs}
        \cup {ColorFive, ColorBad}
Opacities == {Opacity0, Opacity08, Opacity1}

InitRing ==
    /\ files = <<>>
    /\ pc = [t \in Threads |-> "idle"]
    /\ call = [t \in Threads |-> NoCall]
    /\ loc = [t \in Threads |-> NoLocals]
    /\ result = [t \in Threads |-> NoResult]
    /\ calls = 0
    /\ synthRuns = [t \in Threads |-> 0]
    /\ wrote = [t \in Threads |-> FALSE]
    /\ served = <<>>
    /\ rendered = <<>>
    /\ sampleIn = NoSample
    /\ pixelOut = <<>>
    /\ stamps = 0
    /\ ringIn \in [base_color : RingColors, opacity : Opacities, seed : Seeds]
    /\ ringOut = NoImage
    /\ renderIn = NoRender
    /\ renderOut = <<>>
    /\ KeyIdle
    /\ ApiIdle

\* Image.new('RGBA', ..), _hex_to_rgb, the loop over the columns. A colour
\* that does not parse raises out of the drawing.
DrawRing ==
    /\ ringOut = NoImage
    /\ LET parsed == HexToRgb(ringIn.base_color)
       IN  ringOut' = IF parsed.ok
                      THEN GenerateRingImage(parsed.rgb, ringIn.opacity, ringIn.seed)
                      ELSE [mode |-> "raised", raised |-> "ValueError"]
    /\ UNCHANGED <<cacheVars, pixelVars, ringIn, renderVars, keyVars, apiVars>>

NextRing == DrawRing

SpecRing == InitRing /\ [][NextRing]_vars

\* -------------------------------------------------------- repeated render

\* The same request rendered twice (generate_texture, lines 35-46), each
\* render with the state the random module happens to be in.
PlanetTypes == {Star, Gas, Rocky, Ice, Terrestrial, Moon}
RenderColors == RingColors \ {ColorBad}

InitRender ==
    /\ files = <<>>
    /\ pc = [t \in Threads |-> "idle"]
    /\ call = [t \in Threads |-> NoCall]
    /\ loc = [t \in Threads |-> NoLocals]
    /\ result = [t \in Threads |-> NoResult]
    /\ calls = 0
    /\ synthRuns = [t \in Threads |-> 0]
    /\ wrote = [t \in Threads |-> FALSE]
    /\ served = <<>>
    /\ rendered = <<>>
    /\ sampleIn = NoSample
    /\ pixelOut = <<>>
    /\ stamps = 0
    /\ ringIn = NoRing
    /\ ringOut = NoImage
    /\ renderIn \in [planet_type : PlanetTypes, base_color : RenderColors, seeds : Seeds \X Seeds]
    /\ renderOut = <<>>
    /\ KeyIdle
    /\ ApiIdle

RenderAgain ==
    /\ Len(renderOut) < 2
    /\ renderOut' = Append(renderOut,
                           Synthesize(renderIn.planet_type, HexToRgb(renderIn.base_color).rgb,
                                      renderIn.seeds[Len(renderOut) + 1]))
    /\ UNCHANGED <<cacheVars, pixelVars, ringVars, renderIn, keyVars, apiVars>>

NextRender == RenderAgain

SpecRender == InitRender /\ [][NextRender]_vars

\* ================================================================ claims

KnownTypes == {Star, Gas, Rocky, Ice, Terrestrial}

Busy(t) == pc[t] # "idle"
SurfaceCall(t) == Busy(t) /\ call[t].op = "surface"
Cached(t) == "cached" \in DOMAIN result[t] /\ result[t].cached = TRUE
Complete(path) == Exists(path) /\ files[path].state = "complete"

\* C1: a generate_texture call for a (name, planet_type, base_color) that an
\* earlier call already returned a reference for returns that same
\* reference and reports a cache hit, whatever temperature either call was
\* given.
C1_SecondCallHitsSameReference ==
    \A t \in Threads :
        (SurfaceCall(t) /\ RequestOf(call[t]) \in DOMAIN served)
        => /\ pc[t] = "returned"
           /\ Cached(t)
           /\ result[t].diffuse = served[RequestOf(call[t])].result.diffuse

\* C1 witness: the second call has returned its hit, and it was given
\* another temperature than the first.
C1_Witness ==
    \E t \in Threads :
        /\ SurfaceCall(t) /\ pc[t] = "returned" /\ Cached(t)
        /\ RequestOf(call[t]) \in DOMAIN served
        /\ served[RequestOf(call[t])].call.temperature # call[t].temperature
        /\ "cached" \notin DOMAIN served[RequestOf(call[t])].result

\* C2: get-or-render. A generate_texture call that found a file at its
\* canonical path returns the reference with the cache-hit flag, has run no
\* synthesizer and has not written; a call that found none and returns has
\* run exactly one synthesizer, a file exists at its path, and its result
\* has no cache-hit flag. No call runs more than one synthesizer.
C2_GetOrRender ==
    \A t \in Threads :
        SurfaceCall(t) =>
            /\ synthRuns[t] <= 1
            /\ loc[t].hit =>
                /\ pc[t] = "returned"
                /\ Cached(t)
                /\ result[t].diffuse = DiffuseRef(loc[t].texture_id)
                /\ synthRuns[t] = 0
                /\ ~wrote[t]
            /\ (~loc[t].hit /\ pc[t] = "returned") =>
                /\ synthRuns[t] = 1
                /\ loc[t].path \in DOMAIN files
                /\ "cached" \notin DOMAIN result[t]
                /\ result[t].diffuse = DiffuseRef(loc[t].texture_id)

\* C2 witness: a call has returned a hit on a file that an earlier call
\* rendered and wrote.
C2_Witness ==
    \E t \in Threads :
        /\ SurfaceCall(t) /\ loc[t].hit /\ pc[t] = "returned"
        /\ loc[t].path \in DOMAIN rendered

\* C3: after a failed generate_texture or generate_ring_texture call no file
\* exists at the canonical path of its key.
C3_FailedCallLeavesNoFile ==
    \A t \in Threads : pc[t] = "raised" => loc[t].path \notin DOMAIN files

\* C4: a caller that receives a cache-hit reference never receives it for a
\* file that is not completely written.
C4_HitOnlyOnCompleteFile ==
    \A t \in Threads :
        (pc[t] = "returned" /\ Cached(t) /\ Exists(loc[t].path)) => Complete(loc[t].path)

\* C5: at most one render per key is in flight at any time.
InFlight(t) == pc[t] \in {"render", "save", "write"}

C5_OneRenderInFlightPerKey ==
    \A t, u \in Threads :
        (t # u /\ InFlight(t) /\ InFlight(u)) => loc[t].path # loc[u].path

\* C6: a generate_texture call with a malformed base colour never gets as
\* far as an image or a reference.
C6_MalformedColorRejected ==
    \A t \in Threads :
        (SurfaceCall(t) /\ ~WellFormedColor(call[t].base_color))
        => pc[t] \in {"render", "raised"}

\* C7: a call with a planet_type outside the five known values that renders
\* has rendered the terrestrial image; it fails only where a terrestrial
\* call fails (colour parsing, I/O); its result carries its own key and
\* echoes its type; and the file it stores is the file a 'terrestrial' call
\* with the same name and colour stores.
TerrestrialTwin(c) == [c EXCEPT !.planet_type = Terrestrial]
PathOfCall(c) == DiffusePath(SurfaceTextureId(c.planet_type, c.base_color, c.name, c.temperature))

C7_UnknownTypeIsTerrestrial ==
    \A t \in Threads :
        (SurfaceCall(t) /\ call[t].planet_type \notin KnownTypes) =>
            /\ synthRuns[t] = 1 => loc[t].img = GenerateTerrestrialTexture
            /\ pc[t] = "raised" =>
                  \/ result[t].raised = "OSError"
                  \/ result[t].raised = "ValueError" /\ ~HexToRgb(call[t].base_color).ok
            /\ (pc[t] = "returned" /\ ~loc[t].hit) =>
                  result[t] = [diffuse |-> DiffuseRef(loc[t].texture_id),
                               type |-> call[t].planet_type, name |-> call[t].name]
            /\ (Complete(loc[t].path) /\ Complete(PathOfCall(TerrestrialTwin(call[t])))) =>
                  files[loc[t].path].img = files[PathOfCall(TerrestrialTwin(call[t]))].img

\* C7 witness: an unknown-type call has rendered and returned, and the
\* terrestrial call with the same name and colour has its file too.
C7_Witness ==
    \E t \in Threads :
        /\ SurfaceCall(t) /\ call[t].planet_type \notin KnownTypes
        /\ pc[t] = "returned" /\ synthRuns[t] = 1
        /\ Complete(loc[t].path)
        /\ Complete(PathOfCall(TerrestrialTwin(call[t])))
        /\ loc[t].path # PathOfCall(TerrestrialTwin(call[t]))

\* C8: every channel value a strategy assigns to a pixel, and every value
\* the crater pass assigns, is in [0, 255], for every base colour and every
\* noise sample in [-1, 1].
C8_AssignedChannelsInRange ==
    pixelOut # <<>> => \A i \in 1..3 : pixelOut[i] >= 0 /\ pixelOut[i] <= 255

\* C9: once a render for a key has completed, the file stays as that render
\* wrote it, and every later call for the key returns a cache hit without
\* rendering or writing.
C9_RenderedOnceServedForever ==
    /\ \A path \in DOMAIN rendered :
           Complete(path) /\ files[path].img = rendered[path]
    /\ \A t \in Threads :
           (Busy(t) /\ loc[t].late) =>
               /\ pc[t] = "returned" /\ Cached(t)
               /\ synthRuns[t] = 0 /\ ~wrote[t]

\* C9 witness: a later call has hit a rendered key after another key was
\* rendered in between.
C9_Witness ==
    \E t \in Threads :
        /\ Busy(t) /\ loc[t].late /\ pc[t] = "returned"
        /\ Cardinality(DOMAIN rendered) >= 2
        /\ calls = 3

\* C10: the image a terrestrial call renders is the land / ocean mask of the
\* noise field, land (34, 139, 34) where the sample is > 0.1 and ocean
\* (65, 105, 225) elsewhere, and the files stored for two terrestrial
\* requests that differ only in base colour hold identical images.
TerrestrialSample(p) == Pnoise2(p[1] * 3, Width, p[2] * 3, Height, 3)

C10_TerrestrialIgnoresBaseColor ==
    /\ \A t \in Threads :
           (SurfaceCall(t) /\ call[t].planet_type = Terrestrial /\ synthRuns[t] = 1) =>
               /\ DOMAIN loc[t].img.pixels = Grid
               /\ \A p \in Grid :
                      loc[t].img.pixels[p] =
                          IF 10 * TerrestrialSample(p) > NoiseDen
                          THEN <<34, 139, 34>> ELSE <<65, 105, 225>>
    /\ \A a, b \in SurfaceArgs :
           (/\ a.planet_type = Terrestrial /\ b.planet_type = Terrestrial
            /\ a.name = b.name
            /\ Complete(DiffusePath(SurfaceTextureId(a.planet_type, a.base_color, a.name, <<>>)))
            /\ Complete(DiffusePath(SurfaceTextureId(b.planet_type, b.base_color, b.name, <<>>))))
           => files[DiffusePath(SurfaceTextureId(a.planet_type, a.base_color, a.name, <<>>))].img
                = files[DiffusePath(SurfaceTextureId(b.planet_type, b.base_color, b.name, <<>>))].img

\* C10 witness: two terrestrial requests with different base colours both
\* have their file, and the image has land and ocean.
C10_Witness ==
    /\ Complete(DiffusePath(SurfaceTextureId(Terrestrial, ColorA, Sun, <<>>)))
    /\ Complete(DiffusePath(SurfaceTextureId(Terrestrial, ColorB, Sun, <<>>)))
    /\ \E p, q \in Grid :
           /\ files[DiffusePath(SurfaceTextureId(Terrestrial, ColorA, Sun, <<>>))].img.pixels[p] = <<34, 139, 34>>
           /\ files[DiffusePath(SurfaceTextureId(Terrestrial, ColorB, Sun, <<>>))].img.pixels[q] = <<65, 105, 225>>

\* C11: after the crater pass every channel of the pixel is at most the
\* value it had before the pass and at least 0, whatever craters were drawn.
PreStamp == RockyPixel(sampleIn.base_rgb, sampleIn.noise)

C11_CratersNeverBrighten ==
    (sampleIn.strategy = "rocky" /\ stamps >= 1) =>
        \A i \in 1..3 : pixelOut[i] >= 0 /\ pixelOut[i] <= PreStamp[i]

\* C11 witness: a crater has darkened the pixel, flooring one channel at 0
\* and leaving another above 0.
C11_Witness ==
    /\ sampleIn.strategy = "rocky" /\ stamps >= 1
    /\ \E i, j \in 1..3 :
           /\ pixelOut[i] = 0 /\ PreStamp[i] > 0
           /\ pixelOut[j] > 0 /\ pixelOut[j] < PreStamp[j]

\* C12: the red value the ice strategy assigns to a pixel is never above the
\* blue value it assigns, for every noise sample in [-1, 1].
C12_IceRedAtMostBlue ==
    (sampleIn.strategy = "ice" /\ pixelOut # <<>>) => pixelOut[1] <= pixelOut[3]

\* C13: every ring image drawn is RGBA, as wide as the generator's texture
\* width and 64 high, with one RGBA value per column, for every base colour
\* that parses and every opacity.
RingDrawn == ringOut # NoImage /\ HexToRgb(ringIn.base_color).ok

C13_RingImageShape ==
    RingDrawn =>
        /\ ringOut.mode = "RGBA"
        /\ ringOut.size = <<Width, 64>>
        /\ Len(ringOut.columns) = Width
        /\ \A i \in 1..Width : Len(ringOut.columns[i]) = 4

\* C13 witness: a ring has been drawn at opacity 1.0.
C13_Witness ==
    /\ RingDrawn
    /\ ringIn.opacity = Opacity1
    /\ ringIn.base_color = ColorB
    /\ ringOut.size[2] = RingHeight

\* C14: a generate_ring_texture call for a (base_color, opacity) that an
\* earlier call already returned a reference for returns the same 'ring'
\* reference with the cache-hit flag, draws nothing and writes nothing, and
\* a PNG that a call drew and stored is still that image.
RingCall(t) == Busy(t) /\ call[t].op = "ring"

C14_RingSecondCallHits ==
    \A t \in Threads :
        (RingCall(t) /\ RequestOf(call[t]) \in DOMAIN served) =>
            /\ pc[t] = "returned"
            /\ Cached(t)
            /\ result[t].ring = served[RequestOf(call[t])].result.ring
            /\ synthRuns[t] = 0
            /\ ~wrote[t]
            /\ Exists(loc[t].path)
            /\ loc[t].path \in DOMAIN rendered =>
                   files[loc[t].path].img = rendered[loc[t].path]

\* C14 witness: the second ring call has returned its hit on the PNG the
\* first call drew and returned without the flag.
C14_Witness ==
    \E t \in Threads :
        /\ RingCall(t) /\ pc[t] = "returned" /\ Cached(t)
        /\ RequestOf(call[t]) \in DOMAIN served
        /\ "cached" \notin DOMAIN served[RequestOf(call[t])].result
        /\ files[loc[t].path].img.mode = "RGBA"

\* C15: every column of a ring image is either a gap, (0, 0, 0, 0), or a
\* line whose alpha is int(u * opacity * 255) for some u in [0.5, 1.0], that
\* is, lies between int(0.5 * opacity * 255) and int(opacity * 255); for an
\* opacity in [0, 1] every alpha is in [0, 255].
C15_RingAlpha ==
    RingDrawn =>
        \A i \in 1..Width :
            \/ ringOut.columns[i] = <<0, 0, 0, 0>>
            \/ /\ ringOut.columns[i][4] >= PyInt(ringIn.opacity.num * 255, 2 * ringIn.opacity.den)
               /\ ringOut.columns[i][4] <= PyInt(ringIn.opacity.num * 255, ringIn.opacity.den)
               /\ ringOut.columns[i][4] >= 0
               /\ ringOut.columns[i][4] <= 255

\* C15 witness: a ring drawn at opacity 0.8 has a gap, and lines of
\* different alpha, one of them above int(0.5 * 0.8 * 255) = 102.
C15_Witness ==
    /\ RingDrawn
    /\ ringIn.opacity = Opacity08
    /\ \E i, j, k \in 1..Width :
           /\ ringOut.columns[i] = <<0, 0, 0, 0>>
           /\ ringOut.columns[j][4] > 102
           /\ ringOut.columns[k][4] > ringOut.columns[j][4]
           /\ ringOut.columns[k][4] <= 204

\* C16: a generate_texture call in which the colour does not parse or the
\* save fails ends raised, with no result dictionary and no 'diffuse'
\* reference; a call that returns a reference without the cache-hit flag has
\* rendered an image and stored exactly that image.
ColorParseFails(c) ==
    \E i \in {0, 2, 4} : ~PyIntBase16(Slice(LStrip(c, "#"), i, i + 2)).ok

C16_FailuresSurfaced ==
    \A t \in Threads :
        SurfaceCall(t) =>
            /\ (~loc[t].hit /\ ColorParseFails(call[t].base_color)) =>
                   /\ pc[t] \in {"render", "raised"}
                   /\ loc[t].img = NoImage
            /\ pc[t] = "raised" =>
                   /\ DOMAIN result[t] = {"raised"}
                   /\ result[t].raised \in {"ValueError", "OSError"}
            /\ pc[t] = "returned" =>
                   /\ "raised" \notin DOMAIN result[t]
                   /\ ~loc[t].hit =>
                          /\ loc[t].img.mode = "RGB"
                          /\ Complete(loc[t].path)
                          /\ files[loc[t].path].img = loc[t].img

\* C16 witness: a call that rendered its image has raised the failure of
\* its save.
C16_Witness ==
    \E t \in Threads :
        /\ SurfaceCall(t) /\ pc[t] = "raised"
        /\ result[t].raised = "OSError"
        /\ loc[t].img.mode = "RGB"

\* C17: every file in the textures directory is '<key>_diffuse.jpg' for the
\* key of a surface request or '<key>_ring.png' for the key of a ring
\* request, the key being the 12-character hash prefix of the request
\* string; a call works on the one file of its request, the directory holds
\* no more files than calls were made, and a returned reference is
\* '/textures/' followed by the name of that file.
FileName(path) == <<path.id, path.suffix>>
RefName(ref) == <<ref.id, ref.suffix>>
SurfaceKey(c) == Md5Hex12(c.name \o <<"_">> \o c.planet_type \o <<"_">> \o c.base_color)
RingKey(c) == Md5Hex12(<<"r", "i", "n", "g", "_">> \o c.base_color \o <<"_">> \o c.opacity.repr)

C18_SurfaceImageShape ==
    \A t \in Threads :
        (SurfaceCall(t) /\ synthRuns[t] = 1) =>
            /\ loc[t].img.mode = "RGB"
            /\ loc[t].img.size = <<Width, Height>>
            /\ DOMAIN loc[t].img.pixels = (0..(Width - 1)) \X (0..(Height - 1))
            /\ \A p \in DOMAIN loc[t].img.pixels : DOMAIN loc[t].img.pixels[p] = 1..3

\* C18 witness: a rocky image has been rendered while a star and a gas
\* image are already stored.
C18_Witness ==
    \E t \in Threads :
        /\ SurfaceCall(t) /\ synthRuns[t] = 1
        /\ Strategy(call[t].planet_type) = "rocky"
        /\ Complete(DiffusePath(SurfaceTextureId(Star, ColorA, Sun, <<>>)))
        /\ Complete(DiffusePath(SurfaceTextureId(Gas, ColorA, Sun, <<>>)))

\* C19: two renders of the same request by the star, gas, ice or
\* terrestrial strategy produce the same pixel grid, whatever the random
\* module draws in either.
C19_RendersAreRepeatable ==
    (Len(renderOut) = 2 /\ Strategy(renderIn.planet_type) # "rocky") =>
        renderOut[1].pixels = renderOut[2].pixels

\* C19 witness: a star request has been rendered twice, the random module
\* in a different state each time.
C19_Witness ==
    /\ Len(renderOut) = 2
    /\ renderIn.planet_type = Star
    /\ renderIn.base_color = ColorA
    /\ renderIn.seeds[1] # renderIn.seeds[2]
    /\ renderOut[1].pixels = renderOut[2].pixels
    /\ \E p, q \in Grid : renderOut[1].pixels[p] # renderOut[1].pixels[q]

\* C20: the crater pass never stamps more than 50 craters, every crater it
\* has stamped has its centre inside the image and a radius in 5..20, and
\* the pass comes to an end with exactly 50 craters stamped.
CratersInBounds ==
    /\ stamps <= 50
    /\ \A k \in 0..(stamps - 1) :
           /\ CraterX(sampleIn.seed, k) >= 0 /\ CraterX(sampleIn.seed, k) < Width
           /\ CraterY(sampleIn.seed, k) >= 0 /\ CraterY(sampleIn.seed, k) < Height
           /\ CraterRadius(sampleIn.seed, k) >= 5 /\ CraterRadius(sampleIn.seed, k) <= 20

C20_FiftyCratersThenStop == []CratersInBounds /\ <>[](stamps = 50)

\* C20 witness: the pass has ended after 50 craters, and the pixel has the
\* value _add_craters gives it.
C20_Witness ==
    /\ stamps = 50
    /\ ~ENABLED StampNextCrater
    /\ pixelOut = CratersOnPixel(sampleIn.p, PreStamp, sampleIn.seed, 0)

\* The darkening d of a pixel at squared distance q from a crater's centre.
FalloffOf(d, q, radius) ==
    \/ /\ radius * radius * (80 - d) * (80 - d) >= 6400 * q
       /\ d < 80 => radius * radius * (79 - d) * (79 - d) < 6400 * q
    \/ radius * radius * (79 - d) * (79 - d) = 6400 * q

SquaredDist(k) ==
    LET dx == sampleIn.p[1] - CraterX(sampleIn.seed, k)
        dy == sampleIn.p[2] - CraterY(sampleIn.seed, k)
    IN  dx * dx + dy * dy

C21_CraterStep ==
    stamps' = stamps + 1 =>
        LET radius == CraterRadius(sampleIn.seed, stamps)
            q == SquaredDist(stamps)
        IN  IF q >= radius * radius
            THEN pixelOut' = pixelOut
            ELSE \E d \in 0..80 :
                     /\ FalloffOf(d, q, radius)
                     /\ \A i \in 1..3 : pixelOut'[i] = Max(0, pixelOut[i] - d)

RockyOffsetOf(o, f) ==
    /\ 2 * NoiseDen * (o + 50) <= (f + NoiseDen) * 100
    /\ (f + NoiseDen) * 100 < 2 * NoiseDen * (o + 51)

RockyAssigned == sampleIn.strategy = "rocky" /\ pixelOut # <<>> /\ stamps = 0

\* C22: for a noise sample in [-1, 1] the rocky strategy adds one offset
\* int((noise + 1) / 2 * 100) - 50, between -50 and +50, to all three
\* channels of the base colour and clamps each channel to [0, 255].
C22_RockyOffset ==
    RockyAssigned =>
        \E o \in -50..50 :
            /\ RockyOffsetOf(o, sampleIn.noise)
            /\ \A i \in 1..3 :
                   pixelOut[i] = Min(255, Max(0, sampleIn.base_rgb[i] + o))

\* A rocky pixel with one channel clamped at 255 and one shifted by a
\* non-zero offset without clamping.
C22_Witness ==
    /\ RockyAssigned
    /\ \E o \in (-50..50) \ {0} :
           /\ RockyOffsetOf(o, sampleIn.noise)
           /\ \E i, j \in 1..3 :
                  /\ sampleIn.base_rgb[i] + o > 255 /\ pixelOut[i] = 255
                  /\ pixelOut[j] = sampleIn.base_rgb[j] + o /\ pixelOut[j] \in 1..254

\* C23: in every drawn column of a ring each colour channel lies in
\* [0, 255] and within 15 of the base channel, and the three channels are
\* the base channels plus one common offset in [-15, 15], each clamped.
C23_RingColumnVariation ==
    RingDrawn =>
        \A i \in 1..Width :
            \/ ringOut.columns[i] = Transparent
            \/ LET rgb == HexToRgb(ringIn.base_color).rgb
                   col == ringOut.columns[i]
               IN  /\ \A c \in 1..3 :
                          /\ col[c] >= 0 /\ col[c] <= 255
                          /\ col[c] - rgb[c] <= 15 /\ rgb[c] - col[c] <= 15
                   /\ \E v \in -15..15 :
                          \A c \in 1..3 : col[c] = Max(0, Min(255, rgb[c] + v))

\* A drawn column in which the common offset is not 0, one channel is
\* clamped at 255 and another is the base channel plus the offset.
C23_Witness ==
    /\ RingDrawn
    /\ \E i \in 1..Width, v \in 1..15, c, e \in 1..3 :
           LET rgb == HexToRgb(ringIn.base_color).rgb
               col == ringOut.columns[i]
           IN  /\ rgb[c] = 255 /\ col[c] = 255
               /\ rgb[e] = 128 /\ col[e] = 128 + v
               /\ \A k \in 1..3 : col[k] = Max(0, Min(255, rgb[k] + v))

\* The call c with another temperature.
WithTemperature(c, temperature) == [c EXCEPT !.temperature = temperature]

\* The images the strategy of a planet_type gives for a colour, one for each
\* state of the random stream, tabulated over the requests of the model.
ImagesOf ==
    [k \in {<<a.planet_type, a.base_color>> : a \in {b \in SurfaceArgs : HexToRgb(b.base_color).ok}} |->
        {Synthesize(k[1], HexToRgb(k[2]).rgb, seed) : seed \in Seeds}]

\* C24: the temperature has no effect. A generate_texture call has the key
\* and path it would have with any other temperature, its image is the one
\* the strategy of its planet_type gives for its colour, and a call that
\* differs from an earlier returned one only in the temperature is a cache
\* hit on it that renders and writes nothing.
C24_TemperatureHasNoEffect ==
    \A t \in Threads :
        SurfaceCall(t) =>
            /\ \A temperature \in Temperatures :
                   /\ loc[t].path = PathOfCall(WithTemperature(call[t], temperature))
                   /\ loc[t].texture_id = SurfaceKey(WithTemperature(call[t], temperature))
            /\ synthRuns[t] = 1 =>
                   loc[t].img \in ImagesOf[<<call[t].planet_type, call[t].base_color>>]
            /\ (/\ RequestOf(call[t]) \in DOMAIN served
                /\ served[RequestOf(call[t])].call.temperature # call[t].temperature) =>
                   /\ Cached(t) /\ synthRuns[t] = 0 /\ ~wrote[t]
                   /\ result[t].diffuse = served[RequestOf(call[t])].result.diffuse
                   /\ loc[t].path = PathOfCall(served[RequestOf(call[t])].call)

\* A call with a temperature has hit the file that the same request without
\* a temperature rendered and stored.
C24_Witness ==
    \E t \in Threads :
        /\ SurfaceCall(t) /\ Cached(t) /\ synthRuns[t] = 0
        /\ call[t].temperature = <<5778>>
        /\ RequestOf(call[t]) \in DOMAIN served
        /\ served[RequestOf(call[t])].call.temperature = <<>>
        /\ Complete(loc[t].path)
        /\ loc[t].path \in DOMAIN rendered
        /\ files[loc[t].path].img = rendered[loc[t].path]

\* C25: a call with a malformed colour is rejected whatever the cache holds
\* (it never gets past the colour parsing and never returns a cache hit),
\* and it leaves the set of files as it found it.
C25_MalformedColorLeavesCacheUnchanged ==
    \A t \in Threads :
        (Busy(t) /\ ~WellFormedColor(call[t].base_color)) =>
            /\ pc[t] \in {"render", "raised"}
            /\ ~Cached(t)
            /\ ~wrote[t]
            /\ (loc[t].path \in DOMAIN files) = loc[t].hit

\* ---------------------------------------------------------- key derivation

\* Lines 25-26 and 126-127 on their own: the strings hashed, the ids and the
\* paths of two surface requests and one ring request. The names and types
\* include texts with '_' and texts that look like a colour or an opacity;
\* planet_type is not validated, so any text can arrive there.
KeyNames == {Sun, <<"a">>, <<"a", "_", "b">>, <<"a", "_">> \o Rocky, <<"r", "i", "n", "g">>}
KeyTypes == {Star, Rocky, Moon, <<"c">>, <<"b", "_", "c">>, ColorA}
KeyColors == {ColorA, ColorB, Rocky \o <<"_">> \o ColorA, Opacity08.repr}
KeySurfaceRequests == [name : KeyNames, planet_type : KeyTypes, base_color : KeyColors]
KeyRingRequests == [base_color : {ColorA, ColorB}, opacity : {Opacity08, Opacity1}]

InitKey ==
    /\ files = <<>>
    /\ pc = [t \in Threads |-> "idle"]
    /\ call = [t \in Threads |-> NoCall]
    /\ loc = [t \in Threads |-> NoLocals]
    /\ result = [t \in Threads |-> NoResult]
    /\ calls = 0
    /\ synthRuns = [t \in Threads |-> 0]
    /\ wrote = [t \in Threads |-> FALSE]
    /\ served = <<>>
    /\ rendered = <<>>
    /\ sampleIn = NoSample
    /\ pixelOut = <<>>
    /\ stamps = 0
    /\ ringIn = NoRing
    /\ ringOut = NoImage
    /\ renderIn = NoRender
    /\ renderOut = <<>>
    /\ keyIn \in [surface : KeySurfaceRequests, other : KeySurfaceRequests, ring : KeyRingRequests]
    /\ keyOut = <<>>
    /\ ApiIdle

SurfaceKeyOf(r) ==
    LET texture_id == SurfaceTextureId(r.planet_type, r.base_color, r.name, <<>>)
    IN  [input |-> SurfaceHashInput(r.planet_type, r.base_color, r.name, <<>>),
         texture_id |-> texture_id,
         path |-> DiffusePath(texture_id),
         ref |-> DiffuseRef(texture_id)]

RingKeyOf(r) ==
    LET texture_id == RingTextureId(r.base_color, r.opacity)
    IN  [input |-> RingHashInput(r.base_color, r.opacity),
         texture_id |-> texture_id,
         path |-> RingPath(texture_id),
         ref |-> RingRef(texture_id)]

DeriveKeys ==
    /\ keyOut = <<>>
    /\ keyOut' = [surface |-> SurfaceKeyOf(keyIn.surface),
                  other |-> SurfaceKeyOf(keyIn.other),
                  ring |-> RingKeyOf(keyIn.ring)]
    /\ UNCHANGED <<cacheVars, pixelVars, ringVars, renderVars, keyIn, apiVars>>

NextKey == DeriveKeys

SpecKey == InitKey /\ [][NextKey]_vars

\* C26: two surface requests that differ in name, planet_type or base_color
\* never give the same string to hash, and so never the same id and path.
C26_HashInputInjective ==
    (keyOut # <<>> /\ keyIn.surface # keyIn.other) =>
        /\ keyOut.surface.input # keyOut.other.input
        /\ keyOut.surface.path # keyOut.other.path

\* C27: the path and the reference of a surface request always differ from
\* the path and the reference of a ring request.
C27_SurfaceAndRingPathsDiffer ==
    keyOut # <<>> =>
        \A s \in {keyOut.surface, keyOut.other} :
            /\ s.path # keyOut.ring.path
            /\ s.ref # keyOut.ring.ref

\* A surface request and a ring request that hash the same string and get
\* the same id, and still have different paths.
C27_Witness ==
    /\ keyOut # <<>>
    /\ keyOut.surface.input = keyOut.ring.input
    /\ keyOut.surface.texture_id = keyOut.ring.texture_id
    /\ keyOut.surface.path # keyOut.ring.path

\* ------------------------------------------------------- request handlers

\* main.py: generate_textures_batch and the texture loop of
\* generate_universe, with the module-level texture_cache. Both handlers
\* are coroutines whose loops contain no await, so the loop of one request
\* runs to its end before another request is looked at; one step of the
\* model is one iteration of the loop, generator calls included.
MaxRequests == 2
MaxObjects == 2

Saturn == <<"S", "a", "t", "u", "r", "n">>
Earth == <<"E", "a", "r", "t", "h">>
Hoth == <<"H", "o", "t", "h">>
GasNames ==
    {<<"J", "u", "p", "i", "t", "e", "r">>, Saturn, <<"U", "r", "a", "n", "u", "s">>,
     <<"N", "e", "p", "t", "u", "n", "e">>, <<"B", "e", "s", "p", "i", "n">>}
IceNames == {<<"U", "r", "a", "n", "u", "s">>, <<"N", "e", "p", "t", "u", "n", "e">>, Hoth}
TerrestrialNames ==
    {Earth, <<"E", "n", "d", "o", "r">>, <<"C", "o", "r", "u", "s", "c", "a", "n", "t">>}
Hydrogen == <<"H", "y", "d", "r", "o", "g", "e", "n">>
Oxygen == <<"O", "x", "y", "g", "e", "n">>

\* sub in s, for strings.
Contains(s, sub) ==
    \E i \in 1..(Len(s) - Len(sub) + 1) : SubSeq(s, i, i + Len(sub) - 1) = sub

\* s.replace(ch, "")
Without(s, ch) == SelectSeq(s, LAMBDA c : c # ch)

DecDigitValue ==
    ("0" :> 0) @@ ("1" :> 1) @@ ("2" :> 2) @@ ("3" :> 3) @@ ("4" :> 4) @@
    ("5" :> 5) @@ ("6" :> 6) @@ ("7" :> 7) @@ ("8" :> 8) @@ ("9" :> 9)

RECURSIVE DecDigits(_)
DecDigits(s) == IF s = <<>> THEN 0 ELSE 10 * DecDigits(SubSeq(s, 1, Len(s) - 1)) + DecDigitValue[s[Len(s)]]

\* int(s) for a text of digits with an optional sign; anything else (a
\* comma, a letter, the empty text) is ValueError, ok = FALSE.
PyIntBase10(s) ==
    LET signed == s # <<>> /\ Head(s) \in {"+", "-"}
        digits == IF signed THEN Tail(s) ELSE s
        good == digits # <<>> /\ \A i \in 1..Len(digits) : digits[i] \in DOMAIN DecDigitValue
        mag == IF good THEN DecDigits(digits) ELSE 0
    IN  [ok |-> good, val |-> IF signed /\ Head(s) = "-" THEN -mag ELSE mag]

Strip(s) == RStrip(LStrip(s, " "), " ")

\* int(temp.replace("K", "").replace(",", "").strip()) inside try / except:
\* pass; <<>> is None (no temp, or a text that does not parse).
TemperatureOf(text) ==
    LET parsed == PyIntBase10(Strip(Without(Without(text, "K"), ",")))
    IN  IF text # <<>> /\ parsed.ok THEN <<parsed.val>> ELSE <<>>

\* The conditional expression of generate_textures_batch, lines 267-271.
\* "temp and temp < 150" is false for None and for 0.
BatchPlanetType(obj) ==
    LET temp == TemperatureOf(obj.temp)
    IN  IF obj.type = Star THEN Star
        ELSE IF obj.name \in GasNames THEN Gas
        ELSE IF obj.name \in IceNames \/ (temp # <<>> /\ temp[1] # 0 /\ temp[1] < 150) THEN Ice
        ELSE IF obj.name \in TerrestrialNames THEN Terrestrial
        ELSE Rocky

\* The conditional expression of generate_universe, lines 188-191; the int()
\* of the ice test is not guarded (and keeps the commas), so it can raise.
UniversePlanetType(obj) ==
    LET parsed == PyIntBase10(Strip(Without(obj.temp, "K")))
    IN  IF obj.type = Star THEN [ok |-> TRUE, planet_type |-> Star]
        ELSE IF obj.atmosphere # <<>> /\ Contains(obj.atmosphere, Hydrogen)
             THEN [ok |-> TRUE, planet_type |-> Gas]
        ELSE IF obj.temp # <<>> /\ ~parsed.ok THEN [ok |-> FALSE, planet_type |-> <<>>]
        ELSE IF obj.temp # <<>> /\ parsed.val < 200 THEN [ok |-> TRUE, planet_type |-> Ice]
        ELSE IF obj.atmosphere # <<>> /\ Contains(obj.atmosphere, Oxygen)
             THEN [ok |-> TRUE, planet_type |-> Terrestrial]
        ELSE [ok |-> TRUE, planet_type |-> Rocky]

\* The outcomes of one whole generate_texture call on the directory fs: a
\* hit, a ValueError from the colour, or a render whose save succeeds, fails
\* leaving nothing, or fails leaving a truncated file.
SurfaceOutcomes(fs, planet_type, base_color, name, temperature) ==
    LET texture_id == SurfaceTextureId(planet_type, base_color, name, temperature)
        path == DiffusePath(texture_id)
        parsed == HexToRgb(base_color)
    IN  IF path \in DOMAIN fs
        THEN {[raised |-> FALSE, value |-> SurfaceHitResult(texture_id, planet_type, name), files |-> fs]}
        ELSE IF ~parsed.ok
        THEN {[raised |-> TRUE, value |-> [error |-> "ValueError"], files |-> fs]}
        ELSE {[raised |-> FALSE, value |-> SurfaceMissResult(texture_id, planet_type, name),
               files |-> (path :> [state |-> "complete",
                                   img |-> Synthesize(planet_type, parsed.rgb, seed),
                                   writers |-> {}]) @@ fs] : seed \in Seeds}
             \cup {[raised |-> TRUE, value |-> [error |-> "OSError"], files |-> fs],
                   [raised |-> TRUE, value |-> [error |-> "OSError"],
                    files |-> (path :> [state |-> "partial", img |-> NoImage, writers |-> {}]) @@ fs]}

\* The same for one whole generate_ring_texture call.
RingOutcomes(fs, base_color, opacity) ==
    LET texture_id == RingTextureId(base_color, opacity)
        path == RingPath(texture_id)
        parsed == HexToRgb(base_color)
    IN  IF path \in DOMAIN fs
        THEN {[raised |-> FALSE, value |-> RingHitResult(texture_id), files |-> fs]}
        ELSE IF ~parsed.ok
        THEN {[raised |-> TRUE, value |-> [error |-> "ValueError"], files |-> fs]}
        ELSE {[raised |-> FALSE, value |-> RingMissResult(texture_id),
               files |-> (path :> [state |-> "complete",
                                   img |-> GenerateRingImage(parsed.rgb, opacity, seed),
                                   writers |-> {}]) @@ fs] : seed \in Seeds}
             \cup {[raised |-> TRUE, value |-> [error |-> "OSError"], files |-> fs],
                   [raised |-> TRUE, value |-> [error |-> "OSError"],
                    files |-> (path :> [state |-> "partial", img |-> NoImage, writers |-> {}]) @@ fs]}

\* The objects of the requests: id, name, type, color, info.temp,
\* info.atmosphere and ringSystem; <<>> stands for an absent key or None.
\* The batch endpoint takes List[Dict[str, Any]], so a dictionary without
\* "id" is a body it accepts; generate_universe gets CelestialObject models,
\* which always have an id.
NoId == <<>>
Planet == <<"p", "l", "a", "n", "e", "t">>
IdSun == <<"s", "u", "n">>
IdP1 == <<"p", "1">>
IdP2 == <<"p", "2">>

ObjSun ==
    [id |-> IdSun, name |-> Sun, type |-> Star, color |-> ColorA,
     temp |-> <<"5", "7", "7", "8", "K">>, atmosphere |-> <<>>, ringSystem |-> <<>>]
ObjSaturn ==
    [id |-> IdP1, name |-> Saturn, type |-> Planet, color |-> ColorA,
     temp |-> <<"1", "3", "4", "K">>, atmosphere |-> Hydrogen,
     ringSystem |-> <<[color |-> ColorA, opacity |-> Opacity08]>>]
\* The same id with another name and a colour that does not parse.
ObjP1Bad ==
    [id |-> IdP1, name |-> Hoth, type |-> Planet, color |-> ColorBad,
     temp |-> <<"5", "0", "K">>, atmosphere |-> <<>>, ringSystem |-> <<>>]
\* A ring colour that does not parse, and a temperature with a comma.
ObjEarth ==
    [id |-> IdP2, name |-> Earth, type |-> Planet, color |-> ColorB,
     temp |-> <<"1", ",", "2", "8", "8", "K">>, atmosphere |-> Oxygen,
     ringSystem |-> <<[color |-> ColorBad, opacity |-> Opacity08]>>]
ObjNoId == [ObjP1Bad EXCEPT !.id = NoId, !.color = ColorB]

UniverseObjects == {ObjSun, ObjSaturn, ObjP1Bad, ObjEarth}
BatchObjects == UniverseObjects \cup {ObjNoId}

SeqsUpTo(S, n) == UNION {[1..k -> S] : k \in 1..n}

UniverseBodies == SeqsUpTo(UniverseObjects, MaxObjects)
BatchBodies == SeqsUpTo(BatchObjects, MaxObjects)

None == [none |-> TRUE]

\* What the handlers leave alone: the generator's workers and the other
\* developments.
apiFrame ==
    <<pc, call, loc, result, calls, synthRuns, wrote, served, rendered,
      pixelVars, ringVars, renderVars, keyVars>>

InitApi ==
    /\ files = <<>>
    /\ pc = [t \in Threads |-> "idle"]
    /\ call = [t \in Threads |-> NoCall]
    /\ loc = [t \in Threads |-> NoLocals]
    /\ result = [t \in Threads |-> NoResult]
    /\ calls = 0
    /\ synthRuns = [t \in Threads |-> 0]
    /\ wrote = [t \in Threads |-> FALSE]
    /\ served = <<>>
    /\ rendered = <<>>
    /\ sampleIn = NoSample
    /\ pixelOut = <<>>
    /\ stamps = 0
    /\ ringIn = NoRing
    /\ ringOut = NoImage
    /\ renderIn = NoRender
    /\ renderOut = <<>>
    /\ KeyIdle
    /\ texture_generator \in BOOLEAN
    /\ texture_cache = <<>>
    /\ req = NoRequest
    /\ response = NoResponse
    /\ requests = 0

\* A lookup that never finds an id.
InTextureCacheNever(obj_id, cache) == FALSE

\* obj_id in texture_cache
InTextureCache(obj_id, cache) == obj_id \in DOMAIN cache

\* A request arrives: results = {} and obj_id is not bound yet.
BatchRequest ==
    /\ req = NoRequest
    /\ requests < MaxRequests
    /\ \E objects \in BatchBodies :
           req' = [op |-> "batch", objects |-> objects, i |-> 1, results |-> <<>>,
                   obj_id |-> NoId, calls |-> 0, failed |-> {}, made |-> {}]
    /\ requests' = requests + 1
    /\ response' = NoResponse
    /\ UNCHANGED <<files, texture_generator, texture_cache, apiFrame>>

\* Lines 243-247: without a generator every object gets an error entry;
\* obj["id"] is outside any try, so a missing id ends the request with 500.
BatchUnavailable ==
    /\ req.op = "batch"
    /\ ~texture_generator
    /\ response' =
           IF \E j \in 1..Len(req.objects) : req.objects[j].id = NoId
           THEN [status |-> 500]
           ELSE [status |-> 200, op |-> "batch", failed |-> {},
                 body |-> [k \in {req.objects[j].id : j \in 1..Len(req.objects)} |->
                              [error |-> "Texture generation not available"]]]
    /\ req' = NoRequest
    /\ UNCHANGED <<files, texture_generator, texture_cache, requests, apiFrame>>

\* The end of one iteration: obj_id is bound, results[obj_id] = entry, the
\* directory is fs, and texture_cache[obj_id] = entry when the iteration
\* reached line 289. n counts the generator calls of the iteration.
BatchRecord(obj_id, entry, fs, stored, n) ==
    /\ req' = [req EXCEPT !.obj_id = obj_id,
                          !.results = (obj_id :> entry) @@ @,
                          !.i = @ + 1,
                          !.calls = n,
                          !.failed = IF "error" \in DOMAIN entry THEN @ \cup {req.i} ELSE @]
    /\ files' = fs
    /\ texture_cache' = IF stored THEN (obj_id :> entry) @@ texture_cache ELSE texture_cache
    /\ UNCHANGED response

\* One iteration of "for obj in objects" (lines 249-294), handler included.
BatchObject ==
    /\ req.op = "batch"
    /\ texture_generator
    /\ req.i <= Len(req.objects)
    /\ LET obj == req.objects[req.i]
       IN  IF obj.id = NoId
           THEN \* obj["id"] raises KeyError before obj_id is assigned
                IF req.obj_id = NoId
                THEN \* results[obj_id] in the handler raises UnboundLocalError
                     /\ response' = [status |-> 500]
                     /\ req' = NoRequest
                     /\ UNCHANGED <<files, texture_cache>>
                ELSE /\ req' = [req EXCEPT !.results = (req.obj_id :> [error |-> "KeyError"]) @@ @,
                                           !.i = @ + 1,
                                           !.calls = 0,
                                           !.failed = @ \cup {req.i}]
                     /\ UNCHANGED <<files, texture_cache, response>>
           ELSE IF InTextureCache(obj.id, texture_cache)
           THEN /\ req' = [req EXCEPT !.obj_id = obj.id,
                                      !.results = (obj.id :> texture_cache[obj.id]) @@ @,
                                      !.i = @ + 1,
                                      !.calls = 0]
                /\ UNCHANGED <<files, texture_cache, response>>
           ELSE \E s \in SurfaceOutcomes(files, BatchPlanetType(obj), obj.color, obj.name,
                                         TemperatureOf(obj.temp)) :
                    IF s.raised
                    THEN BatchRecord(obj.id, s.value, s.files, FALSE, 1)
                    ELSE IF obj.ringSystem = <<>>
                    THEN BatchRecord(obj.id, s.value, s.files, TRUE, 1)
                    ELSE \E r \in RingOutcomes(s.files, obj.ringSystem[1].color,
                                               obj.ringSystem[1].opacity) :
                             IF r.raised
                             THEN BatchRecord(obj.id, r.value, r.files, FALSE, 2)
                             ELSE BatchRecord(obj.id, [ringTexture |-> r.value.ring] @@ s.value,
                                              r.files, TRUE, 2)
    /\ UNCHANGED <<texture_generator, requests, apiFrame>>

\* return results
BatchReturn ==
    /\ req.op = "batch"
    /\ texture_generator
    /\ req.i > Len(req.objects)
    /\ response' = [status |-> 200, op |-> "batch", failed |-> req.failed, body |-> req.results]
    /\ req' = NoRequest
    /\ UNCHANGED <<files, texture_generator, texture_cache, requests, apiFrame>>

\* generate_universe after "await llama_service.generate_universe(request)"
\* has returned the objects. failed holds the positions of the objects whose
\* iteration raised, made the ids this request stored in texture_cache.
UniverseRequest ==
    /\ req = NoRequest
    /\ requests < MaxRequests
    /\ \E objects \in UniverseBodies :
           req' = [op |-> "universe", objects |-> objects, i |-> 1, results |-> <<>>,
                   obj_id |-> NoId, calls |-> 0, failed |-> {}, made |-> {}]
    /\ requests' = requests + 1
    /\ response' = NoResponse
    /\ UNCHANGED <<files, texture_generator, texture_cache, apiFrame>>

\* The Llama call raises: the outer handler answers 500.
UniverseFails ==
    /\ req = NoRequest
    /\ requests < MaxRequests
    /\ requests' = requests + 1
    /\ response' = [status |-> 500]
    /\ UNCHANGED <<files, texture_generator, texture_cache, req, apiFrame>>

\* One iteration of "for obj in generated_universe.objects" (185-212): the
\* except clause only prints.
UniverseObject ==
    /\ req.op = "universe"
    /\ texture_generator
    /\ req.i <= Len(req.objects)
    /\ LET obj == req.objects[req.i]
           kind == UniversePlanetType(obj)
       IN  IF ~kind.ok
           THEN /\ req' = [req EXCEPT !.i = @ + 1, !.calls = 0, !.failed = @ \cup {req.i}]
                /\ UNCHANGED <<files, texture_cache>>
           ELSE \E s \in SurfaceOutcomes(files, kind.planet_type, obj.color, obj.name,
                                         TemperatureOf(obj.temp)) :
                    /\ files' = s.files
                    /\ IF s.raised
                       THEN /\ req' = [req EXCEPT !.i = @ + 1, !.calls = 1,
                                                  !.failed = @ \cup {req.i}]
                            /\ UNCHANGED texture_cache
                       ELSE /\ req' = [req EXCEPT !.i = @ + 1, !.calls = 1,
                                                  !.made = @ \cup {obj.id}]
                            /\ texture_cache' = (obj.id :> s.value) @@ texture_cache
    /\ UNCHANGED <<texture_generator, response, requests, apiFrame>>

\* universe_dict (214-231): every object with texture_cache.get(obj.id).
UniverseReturn ==
    /\ req.op = "universe"
    /\ ~texture_generator \/ req.i > Len(req.objects)
    /\ response' =
           [status |-> 200, op |-> "universe", failed |-> req.failed, made |-> req.made,
            body |-> [j \in 1..Len(req.objects) |->
                         [id |-> req.objects[j].id,
                          generatedTextures |->
                              IF req.objects[j].id \in DOMAIN texture_cache
                              THEN texture_cache[req.objects[j].id]
                              ELSE None]]]
    /\ req' = NoRequest
    /\ UNCHANGED <<files, texture_generator, texture_cache, requests, apiFrame>>

NextApi ==
    \/ BatchRequest
    \/ BatchUnavailable
    \/ BatchObject
    \/ BatchReturn
    \/ UniverseRequest
    \/ UniverseFails
    \/ UniverseObject
    \/ UniverseReturn

SpecApi == InitApi /\ [][NextApi]_vars

\* An iteration of the batch loop on the object obj is taking place.
BatchIteration ==
    /\ req.op = "batch"
    /\ texture_generator
    /\ req.i <= Len(req.objects)
    /\ req' # req

C28_BatchStep ==
    BatchIteration =>
        LET obj == req.objects[req.i]
        IN  /\ req'.op = "batch"
            /\ req'.i = req.i + 1
            /\ req'.objects = req.objects
            /\ \A k \in DOMAIN req.results :
                   k # obj.id => k \in DOMAIN req'.results /\ req'.results[k] = req.results[k]

\* C28: in generate_textures_batch an iteration, failed or not, leaves the
\* results recorded for the other objects of the batch as they are, and the
\* loop goes on to the next object.
C28_FailureStaysLocal == [][C28_BatchStep]_vars

C29_BatchStep ==
    req.op = "batch" =>
        IF BatchIteration /\ req.objects[req.i].id # NoId
        THEN LET obj == req.objects[req.i]
             IN  IF obj.id \in DOMAIN texture_cache
                 THEN /\ req'.results[obj.id] = texture_cache[obj.id]
                      /\ req'.calls = 0
                      /\ files' = files
                      /\ texture_cache' = texture_cache
                 ELSE texture_cache' # texture_cache =>
                          /\ DOMAIN texture_cache' = DOMAIN texture_cache \cup {obj.id}
                          /\ \A k \in DOMAIN texture_cache : texture_cache'[k] = texture_cache[k]
                          /\ req.i \notin req'.failed
                          /\ req'.results[obj.id] = texture_cache'[obj.id]
                          /\ LET entry == texture_cache'[obj.id]
                             IN  /\ "diffuse" \in DOMAIN entry
                                 /\ DiffusePath(entry.diffuse.id) \in DOMAIN files'
                                 /\ IF obj.ringSystem = <<>>
                                    THEN "ringTexture" \notin DOMAIN entry /\ req'.calls = 1
                                    ELSE /\ "ringTexture" \in DOMAIN entry
                                         /\ RingPath(entry.ringTexture.id) \in DOMAIN files'
                                         /\ req'.calls = 2
        ELSE texture_cache' = texture_cache

C30_FailedObjectHasNoTextures ==
    (response.status = 200 /\ response.op = "universe") =>
        \A j \in response.failed :
            response.body[j].id \notin response.made =>
                response.body[j].generatedTextures = None

=============================================================================
